---- MODULE Spec2Model ----
(***************************************************************************)
(* Model of the state-management core of triton-kubernetes:                *)
(*   - getNewHostnames (create/node_triton.go, later revision), the pure   *)
(*     hostname allocator, with Go's strconv.Atoi, 64-bit wrapping int      *)
(*     arithmetic and %d formatting modelled on digit sequences;           *)
(*   - newTritonNode, the load -> mutate -> terraform -> persist workflow,  *)
(*     in both revisions present in the sources;                           *)
(*   - RunTerraformApplyWithState and RunTerraformDestroyWithState of       *)
(*     package shell;                                                      *)
(*   - newAzureManager (create/manager_azure.go).                          *)
(* Strings are sequences of one-character strings.                         *)
(***************************************************************************)
EXTENDS Integers, Sequences, FiniteSets, TLC

(***************************************************************************)
(* Bounds of the model.                                                    *)
(***************************************************************************)
MaxExisting == 3
MaxCount == 3

(***************************************************************************)
(* Go int (64 bit) as sign and magnitude; the magnitude is a sequence of   *)
(* decimal digits, most significant first, without leading zeros           *)
(* (zero is <<0>>).                                                        *)
(***************************************************************************)
MaxIntMag == <<9,2,2,3,3,7,2,0,3,6,8,5,4,7,7,5,8,0,7>>
MinIntMag == <<9,2,2,3,3,7,2,0,3,6,8,5,4,7,7,5,8,0,8>>

GoInt(isNeg, m) == [neg |-> isNeg, mag |-> m]
IntZero == GoInt(FALSE, <<0>>)
IntOne == GoInt(FALSE, <<1>>)
MinInt == GoInt(TRUE, MinIntMag)

RECURSIVE StripZeros(_)
StripZeros(d) ==
  IF Len(d) > 1 /\ Head(d) = 0 THEN StripZeros(Tail(d)) ELSE d

RECURSIVE LexLess(_, _)
LexLess(a, b) ==
  IF a = <<>> THEN FALSE
  ELSE IF Head(a) # Head(b) THEN Head(a) < Head(b)
  ELSE LexLess(Tail(a), Tail(b))

\* a < b on magnitudes without leading zeros
MagLess(a, b) ==
  IF Len(a) # Len(b) THEN Len(a) < Len(b) ELSE LexLess(a, b)

\* a >= b on Go ints
IntGE(a, b) ==
  IF a.neg /\ ~b.neg THEN FALSE
  ELSE IF ~a.neg /\ b.neg THEN TRUE
  ELSE IF ~a.neg THEN ~MagLess(a.mag, b.mag)
  ELSE ~MagLess(b.mag, a.mag)

RECURSIVE MagInc(_)
MagInc(d) ==
  IF d = <<>> THEN <<1>>
  ELSE IF d[Len(d)] < 9 THEN SubSeq(d, 1, Len(d) - 1) \o <<d[Len(d)] + 1>>
  ELSE MagInc(SubSeq(d, 1, Len(d) - 1)) \o <<0>>

RECURSIVE MagDec(_)
MagDec(d) ==
  IF d[Len(d)] > 0 THEN SubSeq(d, 1, Len(d) - 1) \o <<d[Len(d)] - 1>>
  ELSE MagDec(SubSeq(d, 1, Len(d) - 1)) \o <<9>>

\* v + 1 in two's complement 64-bit arithmetic (Go wraps on overflow)
IntInc(v) ==
  IF ~v.neg
    THEN IF v.mag = MaxIntMag THEN MinInt ELSE GoInt(FALSE, MagInc(v.mag))
    ELSE LET m == StripZeros(MagDec(v.mag))
         IN IF m = <<0>> THEN IntZero ELSE GoInt(TRUE, m)

\* v + i for a small natural i
RECURSIVE IntAdd(_, _)
IntAdd(v, i) == IF i = 0 THEN v ELSE IntAdd(IntInc(v), i - 1)

(***************************************************************************)
(* Characters and decimal conversion.                                      *)
(***************************************************************************)
DigitChars == <<"0", "1", "2", "3", "4", "5", "6", "7", "8", "9">>

IsDigit(c) == \E i \in 1..10 : DigitChars[i] = c
DigitVal(c) == (CHOOSE i \in 1..10 : DigitChars[i] = c) - 1

\* fmt.Sprintf("%d", v)
Itoa(v) ==
  (IF v.neg THEN <<"-">> ELSE <<>>) \o
  [i \in 1..Len(v.mag) |-> DigitChars[v.mag[i] + 1]]

\* strconv.Atoi: an optional single sign, then one or more decimal digits;
\* a value outside the int range is an error.
Atoi(s) ==
  LET signed == s # <<>> /\ Head(s) \in {"+", "-"}
      body == IF signed THEN Tail(s) ELSE s
      isNeg == s # <<>> /\ Head(s) = "-"
      m == StripZeros([i \in 1..Len(body) |-> DigitVal(body[i])])
      limit == IF isNeg THEN MinIntMag ELSE MaxIntMag
  IN IF body = <<>> \/ \E i \in 1..Len(body) : ~IsDigit(body[i])
       THEN [ok |-> FALSE, val |-> IntZero]
     ELSE IF MagLess(limit, m)
       THEN [ok |-> FALSE, val |-> IntZero]
     ELSE [ok |-> TRUE,
           val |-> IF m = <<0>> THEN IntZero ELSE GoInt(isNeg, m)]

\* strings.HasPrefix
HasPrefix(s, p) == Len(s) >= Len(p) /\ SubSeq(s, 1, Len(p)) = p

(***************************************************************************)
(* getNewHostnames                                                         *)
(***************************************************************************)
\* the scan of existingNames that finds the first number of the series
RECURSIVE ScanStartNum(_, _, _)
ScanStartNum(existingNames, targetPrefix, startNum) ==
  IF existingNames = <<>> THEN startNum
  ELSE LET existingName == Head(existingNames)
           rest == Tail(existingNames)
       IN IF ~HasPrefix(existingName, targetPrefix)
            THEN ScanStartNum(rest, targetPrefix, startNum)
          ELSE LET suffix == SubSeq(existingName, Len(targetPrefix) + 1,
                                    Len(existingName))
                   parsed == Atoi(suffix)
               IN IF ~parsed.ok
                    THEN ScanStartNum(rest, targetPrefix, startNum)
                  ELSE IF IntGE(parsed.val, startNum)
                    THEN ScanStartNum(rest, targetPrefix, IntInc(parsed.val))
                  ELSE ScanStartNum(rest, targetPrefix, startNum)

StartNum(existingNames, nodeName) ==
  ScanStartNum(existingNames, nodeName \o <<"-">>, IntOne)

\* the check of the base name left out
NodeNameNeverUsed(existingNames, nodeName) == FALSE

NodeNameUsed(existingNames, nodeName) ==
  \E i \in 1..Len(existingNames) : existingNames[i] = nodeName

getNewHostnames(existingNames, nodeName, nodesToAdd) ==
  IF nodesToAdd < 1 THEN <<>>
  ELSE IF nodesToAdd = 1 /\ ~NodeNameUsed(existingNames, nodeName)
    THEN <<nodeName>>
  ELSE LET startNum == StartNum(existingNames, nodeName)
       IN [i \in 1..nodesToAdd |->
             nodeName \o <<"-">> \o Itoa(IntAdd(startNum, i - 1))]

(***************************************************************************)
(* The state document: a map from module key to module record.  Only the   *)
(* node modules matter here; a record carries the cluster the node belongs *)
(* to and the hostname field of the configuration that was added.          *)
(***************************************************************************)
EmptyDoc == [k \in {} |-> [cluster |-> "", hostname |-> <<>>]]

\* fmt.Sprintf(tritonNodeKeyFormat, hostname)
NodeKey(hostname) == <<"module.node_triton_">> \o hostname

NodeCfg(selectedCluster, hostname) ==
  [cluster |-> selectedCluster, hostname |-> hostname]

\* an Add that builds the document from the new module alone
StateAddAlone(d, key, cfg) == [k \in {key} |-> cfg]

\* an Add that leaves the record of an existing key as it is
StateAddKeepsFirst(d, key, cfg) ==
  [k \in (DOMAIN d) \cup {key} |-> IF k \in DOMAIN d THEN d[k] ELSE cfg]

\* state.Add / gabs SetP: insert or replace the record under key
StateAdd(d, key, cfg) ==
  [k \in (DOMAIN d) \cup {key} |-> IF k = key THEN cfg ELSE d[k]]

\* state.Nodes: the names of the node modules of one cluster
Nodes(d, selectedCluster) ==
  {Tail(k) : k \in {x \in DOMAIN d : d[x].cluster = selectedCluster}}

\* state.Bytes: the serialized document, a JSON object of key/record pairs
Bytes(d) == {<<k, d[k]>> : k \in DOMAIN d}

\* a load that starts from an empty document
ParseNothing(b) == EmptyDoc

\* parsing the serialized document
ParseJSON(b) ==
  [k \in {e[1] : e \in b} |-> (CHOOSE e \in b : e[1] = k)[2]]

\* the unconditional single Add of the earlier revision in place of the loop
AddRequestedHostname(d, newHostnames, cfg, failAt) ==
  StateAdd(d, NodeKey(cfg.hostname), cfg)

\* the loop "for _, newHostname := range newHostnames { state.Add(...) }":
\* failAt = 0 when every Add succeeds, otherwise the index of the Add that
\* returns an error (the earlier ones have been applied).
RECURSIVE AddHostnames(_, _, _, _)
AddHostnames(d, newHostnames, cfg, failAt) ==
  IF newHostnames = <<>> \/ failAt = 1 THEN d
  ELSE AddHostnames(StateAdd(d, NodeKey(Head(newHostnames)), cfg),
                    Tail(newHostnames), cfg,
                    IF failAt = 0 THEN 0 ELSE failAt - 1)

\* all orders in which a Go map range can deliver the elements of S
RECURSIVE Orders(_)
Orders(S) ==
  IF S = {} THEN {<<>>}
  ELSE UNION {{<<e>> \o o : o \in Orders(S \ {e})} : e \in S}

\* injective sequences over S of length at most n
RECURSIVE InjSeqs(_, _)
InjSeqs(S, n) ==
  IF n = 0 THEN {<<>>}
  ELSE LET shorter == InjSeqs(S, n - 1)
       IN shorter \cup
          {o \o <<e>> : o \in {q \in shorter : Len(q) = n - 1}, e \in S}

(***************************************************************************)
(* Input sets of the hostname allocator.                                   *)
(***************************************************************************)
MaxIntChars == Itoa(GoInt(FALSE, MaxIntMag))
MinIntChars == Itoa(MinInt)

NameW == <<"w">>
NameW1 == <<"w", "-", "1">>
NameW3 == <<"w", "-", "3">>
NameW5 == <<"w", "-", "5">>
NameWMax == <<"w", "-">> \o MaxIntChars
NameWMin == <<"w", "-">> \o MinIntChars

ExistingUniverse ==
  { NameW, NameW1, NameW3,
    <<"W", "-", "1">>,            \* differs in case
    <<"w", "-", "0", "3">>,       \* leading zero
    <<"w", "-", "+", "3">>,       \* sign character
    <<"w", "-", "-", "1">>,       \* negative number
    <<"w", "-", "0">>,            \* zero
    <<"w", "-">>,                 \* empty suffix
    <<"w", "-", "x">>,            \* non-numeric suffix
    NameWMax, NameWMin }

BaseNames == { NameW, <<"W">>, NameW3 }

ExistingLists == InjSeqs(ExistingUniverse, MaxExisting)

Counts == (0 - 1)..MaxCount

Range(q) == {q[i] : i \in 1..Len(q)}

VARIABLES
  nmPc,        \* position in lines 233-252: "call", "names", "added", "failed"
  nmExisting,  \* existingNames
  nmNodeName,  \* cfg.Hostname
  nmCount,     \* cfg.NodeCount
  nmResult,    \* newHostnames
  nmDoc,       \* the state document the names are added to
  clNodes,     \* node names of one cluster
  clFreed,     \* names of nodes that were removed from the cluster
  clLast,      \* the last operation on the cluster
  clOps,       \* number of operations so far
  revision,    \* which revision of newTritonNode is deployed
  backend,     \* the bytes the backend holds for the cluster manager
  backendVer,  \* number of writes the backend has taken
  applied,     \* the configurations terraform apply has succeeded on
  started,     \* number of invocations started so far
  pc,          \* position of each invocation in newTritonNode
  cluster,     \* selectedCluster
  hostname,    \* cfg.Hostname
  nodeCount,   \* cfg.NodeCount
  doc,         \* the in-memory state document
  scratch,     \* the temporary directory and its main.tf.json
  leftDirs,    \* the files of the temporary directories left behind
  rmMayFail,   \* whether the file system of this run can refuse a removal
  err,         \* the error newTritonNode returned
  hist,        \* what each invocation has done so far
  shPc,        \* position in RunTerraformApplyWithState / ...DestroyWithState
  shOp,        \* which of the two functions runs: "apply" or "destroy"
  shState,     \* the state document passed in
  shArgs,      \* args of RunTerraformDestroyWithState
  shFs,        \* the temporary directories that exist, with their files
  shTempDir,   \* tempDir
  shRan,       \* the terraform commands run so far
  shRet,       \* the error returned
  azPc,        \* position in newAzureManager
  azNonInteractive,  \* viper.GetBool("non-interactive")
  azIsSet,     \* the settings for which viper.IsSet is true
  azCfg,       \* the fields of cfg assigned so far
  azPrompted,  \* the settings the user was prompted for, in order
  azState,     \* the manager module of currentState
  azRet        \* the error returned

nmVars == <<nmPc, nmExisting, nmNodeName, nmCount, nmResult, nmDoc>>
clVars == <<clNodes, clFreed, clLast, clOps>>
flowVars == <<revision, backend, backendVer, applied, started, pc, cluster,
              hostname, nodeCount, doc, scratch, leftDirs, rmMayFail,
              err, hist>>
shVars == <<shPc, shOp, shState, shArgs, shFs, shTempDir, shRan, shRet>>
azVars == <<azPc, azNonInteractive, azIsSet, azCfg, azPrompted, azState,
            azRet>>
vars == <<nmVars, clVars, flowVars, shVars, azVars>>

\* the document that holds exactly the nodes named in names, all of cluster c
DocOf(names, c) == [k \in {NodeKey(n) : n \in names} |-> NodeCfg(c, Tail(k))]

(***************************************************************************)
(* SpecNamer: one pass over lines 233-252 of newTritonNode, from the list  *)
(* of existing names to the document with the new modules added.           *)
(***************************************************************************)
NamerRest ==
  /\ nmPc = "rest" /\ nmExisting = <<>> /\ nmNodeName = <<>> /\ nmCount = 0
  /\ nmResult = <<>> /\ nmDoc = EmptyDoc

NamerInit ==
  /\ nmPc = "call"
  /\ nmExisting \in ExistingLists
  /\ nmNodeName \in BaseNames
  /\ nmCount \in Counts
  /\ nmResult = <<>>
  /\ nmDoc = DocOf(Range(nmExisting), "c1")

NamerCall ==
  /\ nmPc = "call"
  /\ nmResult' = getNewHostnames(nmExisting, nmNodeName, nmCount)
  /\ nmPc' = "names"
  /\ UNCHANGED <<nmExisting, nmNodeName, nmCount, nmDoc, clVars, flowVars,
                 shVars, azVars>>

NamerAdd ==
  /\ nmPc = "names"
  /\ \E failAt \in 0..Len(nmResult) :
       /\ nmDoc' = AddHostnames(nmDoc, nmResult,
                                NodeCfg("c1", nmNodeName), failAt)
       /\ nmPc' = IF failAt = 0 THEN "added" ELSE "failed"
  /\ UNCHANGED <<nmExisting, nmNodeName, nmCount, nmResult, clVars, flowVars,
                 shVars, azVars>>

(***************************************************************************)
(* SpecCluster: the node names of one cluster under additions (named by    *)
(* getNewHostnames) and removals.                                          *)
(***************************************************************************)
MaxOps == 3

ClusterRest ==
  /\ clNodes = {} /\ clFreed = {} /\ clOps = 0
  /\ clLast = [op |-> "none", base |-> <<>>, before |-> {}, freed |-> {},
               result |-> <<>>]

ClusterInitialNames == { NameW1, NameW3, NameW5, NameWMax }

ClusterInit ==
  /\ clNodes \in {S \in SUBSET ClusterInitialNames : Cardinality(S) <= 2}
  /\ clFreed = {}
  /\ clOps = 0
  /\ clLast = [op |-> "none", base |-> <<>>, before |-> {}, freed |-> {},
               result |-> <<>>]

\* newTritonNode, lines 233-252, on the names alone
AddNodes ==
  /\ clOps < MaxOps
  /\ \E existingNames \in Orders(clNodes), nodesToAdd \in 1..2 :
       LET newHostnames == getNewHostnames(existingNames, NameW, nodesToAdd)
       IN /\ clNodes' = clNodes \cup Range(newHostnames)
          /\ clLast' = [op |-> "add", base |-> NameW, before |-> clNodes,
                        freed |-> clFreed, result |-> newHostnames]
  /\ clOps' = clOps + 1
  /\ UNCHANGED <<clFreed, nmVars, flowVars, shVars, azVars>>

\* a node of the cluster is destroyed
RemoveNode ==
  /\ clOps < MaxOps
  /\ \E n \in clNodes :
       /\ clNodes' = clNodes \ {n}
       /\ clFreed' = clFreed \cup {n}
       /\ clLast' = [op |-> "remove", base |-> <<>>, before |-> clNodes,
                     freed |-> clFreed, result |-> <<n>>]
  /\ clOps' = clOps + 1
  /\ UNCHANGED <<nmVars, flowVars, shVars, azVars>>

(***************************************************************************)
(* Spec: concurrent invocations of newTritonNode against one cluster       *)
(* manager.  Positions: "idle", "loaded" (document loaded), "mutated"      *)
(* (modules added), "tempdir", "written" (main.tf.json saved), "inited",   *)
(* "applied", and the two outcomes "committed" (nil returned) and          *)
(* "discarded" (error returned).                                           *)
(***************************************************************************)
MaxInvocations == 2

Procs == {"p1", "p2"}
Clusters == {"c1", "c2"}
Hostnames == {NameW}
Revisions == {"part_001", "node_triton"}
NodeCounts == {0, 1, 2}

MainTfJson == "main.tf.json"

NoScratch == [dir |-> FALSE, file |-> FALSE, json |-> {}]

\* a step counted in the history of an invocation (the count saturates)
Counted(n) == IF n < 2 THEN n + 1 ELSE n

NoHist ==
  [loaded |-> {}, loadNo |-> 0, names |-> <<>>, newKeys |-> {},
   handed |-> {}, tfError |-> "none", applyOk |-> FALSE, wrote |-> 0,
   committed |-> {}, commitNo |-> 0, othersWrote |-> FALSE,
   mutated |-> FALSE, inits |-> 0, applies |-> 0, persists |-> 0,
   persistError |-> FALSE]

InitialBackends == {Bytes(EmptyDoc), Bytes(DocOf({NameW}, "c1"))}

\* the state before the first invocation of newTritonNode
FlowStart ==
  /\ revision \in Revisions
  /\ backend \in InitialBackends
  /\ backendVer = 0
  /\ applied = {backend}
  /\ started = 0
  /\ pc = [p \in Procs |-> "idle"]
  /\ cluster = [p \in Procs |-> "c1"]
  /\ hostname = [p \in Procs |-> NameW]
  /\ nodeCount = [p \in Procs |-> 1]
  /\ doc = [p \in Procs |-> EmptyDoc]
  /\ scratch = [p \in Procs |-> NoScratch]
  /\ leftDirs = {}
  /\ err = [p \in Procs |-> "nil"]
  /\ hist = [p \in Procs |-> NoHist]

\* Spec and FairSpec follow the runs in which the file system refuses no
\* removal; SpecShell and SpecScratch follow the others as well
FlowInit == FlowStart /\ rmMayFail = FALSE

\* newTritonNode at rest, while another function is followed
FlowIdle ==
  /\ revision = "part_001" /\ backend = {} /\ backendVer = 0 /\ applied = {}
  /\ started = 0
  /\ pc = [p \in Procs |-> "idle"]
  /\ cluster = [p \in Procs |-> "c1"]
  /\ hostname = [p \in Procs |-> NameW]
  /\ nodeCount = [p \in Procs |-> 1]
  /\ doc = [p \in Procs |-> EmptyDoc]
  /\ scratch = [p \in Procs |-> NoScratch]
  /\ leftDirs = {}
  /\ err = [p \in Procs |-> "nil"]
  /\ hist = [p \in Procs |-> NoHist]

FlowRest == FlowIdle /\ rmMayFail = FALSE

\* the files in the temporary directory of invocation p
ScratchFiles(p) ==
  IF scratch[p].file THEN {<<MainTfJson, scratch[p].json>>} ELSE {}

\* defer os.RemoveAll(tempDir): the call removes the directory and returns
\* nil, or it returns an error, having removed what it could, and the
\* directory is still there with the files that could not be removed.  The
\* error is dropped and the invocation returns as it would have.
DeferredRemoveAll(p) ==
  /\ scratch' = [scratch EXCEPT ![p] = NoScratch]
  /\ \/ UNCHANGED leftDirs
     \/ /\ rmMayFail
        /\ \E rest \in SUBSET ScratchFiles(p) :
             leftDirs' = leftDirs \cup {rest}
  /\ UNCHANGED rmMayFail

\* return err; when the temporary directory was created before, the
\* deferred os.RemoveAll(tempDir) runs
ReturnError(p, e) ==
  /\ pc' = [pc EXCEPT ![p] = "discarded"]
  /\ err' = [err EXCEPT ![p] = e]
  /\ IF scratch[p].dir THEN DeferredRemoveAll(p)
                       ELSE UNCHANGED <<scratch, leftDirs, rmMayFail>>

\* a new invocation: the inputs are fixed and the current document of the
\* cluster manager is loaded and parsed (in the later revision by the caller,
\* which passes it in as state).  The prompts and SDK calls before this
\* point return their errors without touching the document or the backend.
Load(p) ==
  /\ pc[p] \in {"idle", "committed", "discarded"}
  /\ started < MaxInvocations
  /\ started' = started + 1
  /\ \E c \in Clusters, h \in Hostnames,
        n \in (IF revision = "part_001" THEN NodeCounts ELSE {1}),
        ok \in BOOLEAN :
       /\ cluster' = [cluster EXCEPT ![p] = c]
       /\ hostname' = [hostname EXCEPT ![p] = h]
       /\ nodeCount' = [nodeCount EXCEPT ![p] = n]
       /\ doc' = [doc EXCEPT ![p] = IF ok THEN ParseJSON(backend)
                                         ELSE EmptyDoc]
       /\ pc' = [pc EXCEPT ![p] = IF ok THEN "loaded" ELSE "discarded"]
       /\ err' = [err EXCEPT ![p] = IF ok THEN "nil" ELSE "LoadError"]
  /\ scratch' = [scratch EXCEPT ![p] = NoScratch]
  /\ hist' = [hist EXCEPT ![p] = [NoHist EXCEPT !.loaded = backend,
                                                !.loadNo = backendVer]]
  /\ UNCHANGED <<revision, backend, backendVer, applied, leftDirs, rmMayFail>>

\* the same step with the error of state.Add not returned
MutateNamedAddErrorIgnored(p) ==
  /\ pc[p] = "loaded"
  /\ revision = "part_001"
  /\ \E existingNames \in Orders(Nodes(doc[p], cluster[p])) :
       LET newHostnames ==
             getNewHostnames(existingNames, hostname[p], nodeCount[p])
       IN \E failAt \in 0..Len(newHostnames) :
            LET added == IF failAt = 0 THEN Len(newHostnames) ELSE failAt - 1
            IN /\ doc' = [doc EXCEPT ![p] =
                            AddHostnames(doc[p], newHostnames,
                                         NodeCfg(cluster[p], hostname[p]),
                                         failAt)]
               /\ hist' = [hist EXCEPT
                             ![p].names = newHostnames,
                             ![p].newKeys =
                                {NodeKey(newHostnames[i]) : i \in 1..added},
                             ![p].mutated = TRUE]
  /\ pc' = [pc EXCEPT ![p] = "mutated"]
  /\ UNCHANGED <<revision, backend, backendVer, applied, started, cluster,
                 hostname, nodeCount, err, scratch, leftDirs, rmMayFail>>

\* lines 233-252 of the later revision: state.Nodes, getNewHostnames and
\* one state.Add per new hostname
MutateNamed(p) ==
  /\ pc[p] = "loaded"
  /\ revision = "part_001"
  /\ \/ /\ ReturnError(p, "NodesError")
        /\ UNCHANGED <<doc, hist>>
     \/ \E existingNames \in Orders(Nodes(doc[p], cluster[p])) :
          LET newHostnames ==
                getNewHostnames(existingNames, hostname[p], nodeCount[p])
          IN \E failAt \in 0..Len(newHostnames) :
               LET added == IF failAt = 0 THEN Len(newHostnames)
                                          ELSE failAt - 1
               IN /\ doc' = [doc EXCEPT ![p] =
                               AddHostnames(doc[p], newHostnames,
                                            NodeCfg(cluster[p], hostname[p]),
                                            failAt)]
                  /\ hist' = [hist EXCEPT
                                ![p].names = newHostnames,
                                ![p].newKeys =
                                   {NodeKey(newHostnames[i]) : i \in 1..added},
                                ![p].mutated = TRUE]
                  /\ IF failAt = 0
                       THEN /\ pc' = [pc EXCEPT ![p] = "mutated"]
                            /\ UNCHANGED <<err, scratch, leftDirs, rmMayFail>>
                       ELSE ReturnError(p, "AddError")
  /\ UNCHANGED <<revision, backend, backendVer, applied, started, cluster,
                 hostname, nodeCount>>

\* lines 365-367 of the earlier revision: one SetP under the hostname given
MutateSetP(p) ==
  /\ pc[p] = "loaded"
  /\ revision = "node_triton"
  /\ doc' = [doc EXCEPT ![p] = StateAdd(doc[p], NodeKey(hostname[p]),
                                        NodeCfg(cluster[p], hostname[p]))]
  /\ hist' = [hist EXCEPT ![p].names = <<hostname[p]>>,
                          ![p].newKeys = {NodeKey(hostname[p])},
                          ![p].mutated = TRUE]
  /\ pc' = [pc EXCEPT ![p] = "mutated"]
  /\ UNCHANGED <<revision, backend, backendVer, applied, started, cluster,
                 hostname, nodeCount, scratch, err, leftDirs, rmMayFail>>

\* ioutil.TempDir
MakeTempDir(p) ==
  /\ pc[p] = "mutated"
  /\ \/ /\ pc' = [pc EXCEPT ![p] = "tempdir"]
        /\ scratch' = [scratch EXCEPT ![p] = [dir |-> TRUE, file |-> FALSE,
                                              json |-> {}]]
        /\ UNCHANGED <<err, leftDirs, rmMayFail>>
     \/ ReturnError(p, "TempDirError")
  /\ UNCHANGED <<revision, backend, backendVer, applied, started, cluster,
                 hostname, nodeCount, doc, hist>>

\* the same step with a module added after the configuration was saved
WriteConfigThenAdd(p) ==
  /\ pc[p] = "tempdir"
  /\ pc' = [pc EXCEPT ![p] = "written"]
  /\ scratch' = [scratch EXCEPT ![p].file = TRUE,
                                 ![p].json = Bytes(doc[p])]
  /\ hist' = [hist EXCEPT ![p].handed = Bytes(doc[p])]
  /\ doc' = [doc EXCEPT ![p] = StateAdd(doc[p], NodeKey(hostname[p]),
                                        NodeCfg(cluster[p], hostname[p]))]
  /\ UNCHANGED <<revision, backend, backendVer, applied, started, cluster,
                 hostname, nodeCount, err, leftDirs, rmMayFail>>

\* ioutil.WriteFile(jsonPath, state.Bytes(), 0644)
WriteConfig(p) ==
  /\ pc[p] = "tempdir"
  /\ \/ /\ pc' = [pc EXCEPT ![p] = "written"]
        /\ scratch' = [scratch EXCEPT ![p].file = TRUE,
                                       ![p].json = Bytes(doc[p])]
        /\ hist' = [hist EXCEPT ![p].handed = Bytes(doc[p])]
        /\ UNCHANGED <<err, leftDirs, rmMayFail>>
     \/ /\ ReturnError(p, "WriteError")
        /\ UNCHANGED hist
  /\ UNCHANGED <<revision, backend, backendVer, applied, started, cluster,
                 hostname, nodeCount, doc>>

\* the same step with the error of terraform init not returned
TerraformInitErrorIgnored(p) ==
  /\ pc[p] = "written"
  /\ pc' = [pc EXCEPT ![p] = "inited"]
  /\ \/ hist' = [hist EXCEPT ![p].inits = Counted(@)]
     \/ hist' = [hist EXCEPT ![p].inits = Counted(@),
                             ![p].tfError = "init"]
  /\ UNCHANGED <<revision, backend, backendVer, applied, started, cluster,
                 hostname, nodeCount, doc, err, scratch,
                 leftDirs, rmMayFail>>

\* the same step with a failed terraform init run again
TerraformInitRetried(p) ==
  /\ pc[p] = "written"
  /\ \/ /\ pc' = [pc EXCEPT ![p] = "inited"]
        /\ hist' = [hist EXCEPT ![p].inits = Counted(@)]
     \/ /\ hist[p].inits < 2
        /\ hist' = [hist EXCEPT ![p].inits = Counted(@)]
        /\ UNCHANGED pc
  /\ UNCHANGED <<revision, backend, backendVer, applied, started, cluster,
                 hostname, nodeCount, doc, err, scratch,
                 leftDirs, rmMayFail>>

\* terraform init -force-copy
TerraformInit(p) ==
  /\ pc[p] = "written"
  /\ \/ /\ pc' = [pc EXCEPT ![p] = "inited"]
        /\ hist' = [hist EXCEPT ![p].inits = Counted(@)]
        /\ UNCHANGED <<err, scratch, leftDirs, rmMayFail>>
     \/ /\ ReturnError(p, "InitError")
        /\ hist' = [hist EXCEPT ![p].inits = Counted(@),
                                ![p].tfError = "init"]
  /\ UNCHANGED <<revision, backend, backendVer, applied, started, cluster,
                 hostname, nodeCount, doc>>

\* the same step with the error of terraform apply not returned
TerraformApplyErrorIgnored(p) ==
  /\ pc[p] = "inited"
  /\ pc' = [pc EXCEPT ![p] = "applied"]
  /\ \/ /\ applied' = applied \cup {scratch[p].json}
        /\ hist' = [hist EXCEPT ![p].applies = Counted(@),
                                ![p].applyOk = TRUE]
     \/ /\ hist' = [hist EXCEPT ![p].applies = Counted(@),
                                ![p].tfError = "apply"]
        /\ UNCHANGED applied
  /\ UNCHANGED <<revision, backend, backendVer, started, cluster, hostname,
                 nodeCount, doc, err, scratch,
                 leftDirs, rmMayFail>>

\* the same step with a failed terraform apply sent back to terraform init
TerraformApplyRetried(p) ==
  /\ pc[p] = "inited"
  /\ \/ /\ pc' = [pc EXCEPT ![p] = "applied"]
        /\ applied' = applied \cup {scratch[p].json}
        /\ hist' = [hist EXCEPT ![p].applies = Counted(@),
                                ![p].applyOk = TRUE]
     \/ /\ pc' = [pc EXCEPT ![p] = "written"]
        /\ hist' = [hist EXCEPT ![p].applies = Counted(@)]
        /\ UNCHANGED applied
  /\ UNCHANGED <<revision, backend, backendVer, started, cluster, hostname,
                 nodeCount, doc, err, scratch,
                 leftDirs, rmMayFail>>

\* terraform apply -auto-approve
TerraformApply(p) ==
  /\ pc[p] = "inited"
  /\ \/ /\ pc' = [pc EXCEPT ![p] = "applied"]
        /\ applied' = applied \cup {scratch[p].json}
        /\ hist' = [hist EXCEPT ![p].applies = Counted(@),
                                ![p].applyOk = TRUE]
        /\ UNCHANGED <<err, scratch, leftDirs, rmMayFail>>
     \/ /\ ReturnError(p, "ApplyError")
        /\ hist' = [hist EXCEPT ![p].applies = Counted(@),
                                ![p].tfError = "apply"]
        /\ UNCHANGED applied
  /\ UNCHANGED <<revision, backend, backendVer, started, cluster, hostname,
                 nodeCount, doc>>

\* the bytes a stale write would commit: those loaded at the start
PersistedLoadedBytes(p) == hist[p].loaded

\* what is committed: the state document (PersistState(state)), in the
\* earlier revision the jsonBytes that were saved to main.tf.json
PersistedBytes(p) ==
  IF revision = "part_001" THEN Bytes(doc[p]) ELSE scratch[p].json

\* the same step with the error of the backend write not returned
PersistStateErrorSwallowed(p) ==
  /\ pc[p] = "applied"
  /\ \/ /\ backend' = PersistedBytes(p)
        /\ backendVer' = backendVer + 1
        /\ hist' = [q \in Procs |->
                      IF q = p
                        THEN [hist[p] EXCEPT !.wrote = @ + 1,
                                             !.persists = Counted(@),
                                             !.committed = PersistedBytes(p),
                                             !.commitNo = backendVer + 1]
                        ELSE [hist[q] EXCEPT !.othersWrote = TRUE]]
     \/ /\ hist' = [hist EXCEPT ![p].persists = Counted(@),
                                ![p].persistError = TRUE]
        /\ UNCHANGED <<backend, backendVer>>
  /\ pc' = [pc EXCEPT ![p] = "committed"]
  /\ DeferredRemoveAll(p)
  /\ UNCHANGED <<revision, applied, started, cluster, hostname, nodeCount,
                 doc, err>>

\* remoteBackend.PersistState / CommitTerraformConfig, then return nil
PersistState(p) ==
  /\ pc[p] = "applied"
  /\ \/ /\ backend' = PersistedBytes(p)
        /\ backendVer' = backendVer + 1
        /\ hist' = [q \in Procs |->
                      IF q = p
                        THEN [hist[p] EXCEPT !.wrote = @ + 1,
                                             !.persists = Counted(@),
                                             !.committed = PersistedBytes(p),
                                             !.commitNo = backendVer + 1]
                        ELSE [hist[q] EXCEPT !.othersWrote = TRUE]]
        /\ pc' = [pc EXCEPT ![p] = "committed"]
        /\ DeferredRemoveAll(p)
        /\ UNCHANGED err
     \/ /\ ReturnError(p, "PersistError")
        /\ hist' = [hist EXCEPT ![p].persists = Counted(@),
                                ![p].persistError = TRUE]
        /\ UNCHANGED <<backend, backendVer>>
  /\ UNCHANGED <<revision, applied, started, cluster, hostname, nodeCount,
                 doc>>

(***************************************************************************)
(* SpecShell: RunTerraformApplyWithState and RunTerraformDestroyWithState  *)
(* (package shell).  The temporary directories are a map from directory    *)
(* name to the files in it, a file being a pair of name and content.       *)
(***************************************************************************)
TempDirs == {"d1", "d2"}

\* files of a directory some earlier run has left behind
OldFiles ==
  { <<MainTfJson, Bytes(DocOf({NameW5}, "c1"))>>, <<"terraform.tfstate", {}>> }

ShellStates ==
  { EmptyDoc, DocOf({NameW}, "c1"), DocOf({NameW, NameW1}, "c1"),
    DocOf({NameW, NameW1}, "c2") }

ShellArgs == { <<>>, <<"-target=module.node_triton_w">> }

ShellInitialFs == {[d \in D |-> OldFiles] : D \in {{}, {"d1"}, {"d2"}}}

ShellRest ==
  /\ shPc = "rest" /\ shOp = "apply" /\ shState = EmptyDoc /\ shArgs = <<>>
  /\ shFs = [d \in {} |-> {}] /\ shTempDir = "" /\ shRan = <<>>
  /\ shRet = "pending"

ShellInit ==
  /\ shPc = "call"
  /\ shOp \in {"apply", "destroy"}
  /\ shState \in ShellStates
  /\ shArgs \in (IF shOp = "apply" THEN {<<>>} ELSE ShellArgs)
  /\ shFs \in ShellInitialFs
  /\ shTempDir = ""
  /\ shRan = <<>>
  /\ shRet = "pending"

\* os.RemoveAll(dir) returning nil: the directory and its files are gone
RemoveAll(fs, dir) == [d \in (DOMAIN fs) \ {dir} |-> fs[d]]

\* os.RemoveAll(dir) returning an error: it has removed what it could, the
\* directory is still there with the files that could not be removed
RemoveAllError(fs, dir) == {[fs EXCEPT ![dir] = rest] : rest \in SUBSET fs[dir]}

\* ioutil.WriteFile(name, data, 0644) in a directory with the given files
WriteFile(files, name, data) ==
  {f \in files : f[1] # name} \cup {<<name, data>>}

\* return e: the deferred os.RemoveAll(tempDir) runs and its error, if
\* any, is dropped
ShReturn(e) ==
  /\ shPc' = "returned"
  /\ shRet' = e
  /\ shFs' \in {RemoveAll(shFs, shTempDir)}
                 \cup (IF rmMayFail THEN RemoveAllError(shFs, shTempDir)
                                    ELSE {})

\* RunShellCommand(&shellOptions, GetTerraformCmd(), args...) with the
\* temporary directory as working directory
RunShellCommand(args, ok) ==
  shRan' = Append(shRan, [args |-> args, dir |-> shTempDir,
                          files |-> shFs[shTempDir], ok |-> ok])

\* ioutil.TempDir("", "triton-kubernetes-"): a new, empty directory; on an
\* error the function returns before the RemoveAll is deferred
ShTempDir ==
  /\ shPc = "call"
  /\ \/ \E d \in TempDirs \ DOMAIN shFs :
          /\ shTempDir' = d
          /\ shFs' = [x \in (DOMAIN shFs) \cup {d} |->
                        IF x = d THEN {} ELSE shFs[x]]
          /\ shPc' = "tempdir"
          /\ UNCHANGED shRet
     \/ /\ shPc' = "returned"
        /\ shRet' = "TempDirError"
        /\ UNCHANGED <<shFs, shTempDir>>
  /\ UNCHANGED <<shOp, shState, shArgs, shRan, nmVars, clVars, flowVars,
                 azVars>>

\* ioutil.WriteFile(jsonPath, state.Bytes(), 0644)
ShWriteFile ==
  /\ shPc = "tempdir"
  /\ \/ /\ shFs' = [shFs EXCEPT ![shTempDir] =
                      WriteFile(@, MainTfJson, Bytes(shState))]
        /\ shPc' = "written"
        /\ UNCHANGED shRet
     \/ ShReturn("WriteError")
  /\ UNCHANGED <<shOp, shState, shArgs, shTempDir, shRan, nmVars, clVars,
                 flowVars, azVars>>

\* the same step with the error of terraform init not returned
ShInitErrorIgnored ==
  /\ shPc = "written"
  /\ \E ok \in BOOLEAN : RunShellCommand(<<"init", "-force-copy">>, ok)
  /\ shPc' = "inited"
  /\ UNCHANGED <<shOp, shState, shArgs, shFs, shTempDir, shRet, nmVars,
                 clVars, flowVars, azVars>>

\* terraform init -force-copy
ShInit ==
  /\ shPc = "written"
  /\ \E ok \in BOOLEAN :
       /\ RunShellCommand(<<"init", "-force-copy">>, ok)
       /\ IF ok THEN /\ shPc' = "inited"
                     /\ UNCHANGED <<shFs, shRet>>
                ELSE ShReturn("InitError")
  /\ UNCHANGED <<shOp, shState, shArgs, shTempDir, nmVars, clVars, flowVars,
                 azVars>>

\* terraform apply -auto-approve, then return nil
ShApply ==
  /\ shPc = "inited"
  /\ shOp = "apply"
  /\ \E ok \in BOOLEAN :
       /\ RunShellCommand(<<"apply", "-auto-approve">>, ok)
       /\ ShReturn(IF ok THEN "nil" ELSE "ApplyError")
  /\ UNCHANGED <<shOp, shState, shArgs, shTempDir, nmVars, clVars, flowVars,
                 azVars>>

\* terraform destroy -force args..., then return nil
ShDestroy ==
  /\ shPc = "inited"
  /\ shOp = "destroy"
  /\ \E ok \in BOOLEAN :
       /\ RunShellCommand(<<"destroy", "-force">> \o shArgs, ok)
       /\ ShReturn(IF ok THEN "nil" ELSE "DestroyError")
  /\ UNCHANGED <<shOp, shState, shArgs, shTempDir, nmVars, clVars, flowVars,
                 azVars>>

(***************************************************************************)
(* SpecAzure: newAzureManager (create/manager_azure.go).  The function     *)
(* obtains ten settings in a fixed order, each from the configuration      *)
(* (viper) or from a prompt, with checks and Azure SDK calls in between,   *)
(* and ends with currentState.SetManager(&cfg).                            *)
(***************************************************************************)
AzureSettings ==
  << "azure_subscription_id", "azure_client_id", "azure_client_secret",
     "azure_tenant_id", "azure_environment", "azure_location", "azure_size",
     "azure_ssh_user", "azure_public_key_path", "azure_private_key_path" >>

\* the steps of newAzureManager in program order
AzureSteps ==
  << "base", "azure_subscription_id", "azure_client_id",
     "azure_client_secret", "azure_tenant_id", "azure_environment",
     "verify_environment", "list_locations", "azure_location", "list_sizes",
     "azure_size", "azure_ssh_user", "azure_public_key_path",
     "azure_private_key_path", "set_manager", "returned" >>

AzAfter(step) ==
  AzureSteps[(CHOOSE i \in 1..Len(AzureSteps) : AzureSteps[i] = step) + 1]

AzureEnvironments == {"public", "government", "german", "china"}

\* the display names ListLocations returns and the names of the sizes
\* the virtual machine sizes client lists
AzureLocations == {"West US"}
AzureVMSizes == {"Standard_A1"}

\* a path is a sequence of segments; homedir.Expand replaces a leading "~"
\* by the home directory and fails when that cannot be determined
HomeDir == <<"home", "user">>

KeyPaths == { <<"~", ".ssh", "id_rsa">>, <<"keys", "id_rsa">> }

Outcome(e, v) == [err |-> e, val |-> v]

Expand(path) ==
  IF path = <<>> \/ Head(path) # "~"
    THEN {Outcome("nil", path)}
    ELSE {Outcome("nil", HomeDir \o Tail(path)), Outcome("ExpandError", <<>>)}

\* what viper.GetString can hold for a setting that is set
ConfigValues(k) ==
  IF k = "azure_environment" THEN {"public", "mars"}
  ELSE IF k = "azure_location" THEN {"West US", "Atlantis"}
  ELSE IF k = "azure_size" THEN {"Standard_A1", "Standard_Z9"}
  ELSE IF k \in {"azure_public_key_path", "azure_private_key_path"}
    THEN KeyPaths
  ELSE {"configured"}

NoManager == [k \in {} |-> ""]

AzureRest ==
  /\ azPc = "rest" /\ azNonInteractive = FALSE /\ azIsSet = {}
  /\ azCfg = NoManager /\ azPrompted = <<>> /\ azState = NoManager
  /\ azRet = "pending"

AzureInit ==
  /\ azPc = "base"
  /\ azNonInteractive \in BOOLEAN
  /\ azIsSet \in SUBSET Range(AzureSettings)
  /\ azCfg = NoManager
  /\ azPrompted = <<>>
  /\ azState = NoManager
  /\ azRet = "pending"

\* an error return that also records the configuration gathered so far
AzReturnAfterSetManager(e) ==
  /\ azPc' = "returned"
  /\ azRet' = e
  /\ azState' = azCfg

\* return err
AzReturn(e) ==
  /\ azPc' = "returned"
  /\ azRet' = e
  /\ UNCHANGED azState

\* cfg.<field of k> = v, or the error return of a failed read
AzTake(k, r) ==
  IF r.err = "nil"
    THEN /\ azCfg' = [x \in (DOMAIN azCfg) \cup {k} |->
                        IF x = k THEN r.val ELSE azCfg[x]]
         /\ azPc' = AzAfter(k)
         /\ UNCHANGED <<azRet, azState>>
    ELSE /\ AzReturn(r.err)
         /\ UNCHANGED azCfg

\* a setting that is prompted for even in non-interactive mode
AzObtainPrompting(k, fromConfig, fromPrompt) ==
  /\ IF k \in azIsSet
       THEN /\ \E r \in fromConfig : AzTake(k, r)
            /\ UNCHANGED azPrompted
       ELSE /\ azPrompted' = Append(azPrompted, k)
            /\ \E r \in fromPrompt : AzTake(k, r)
  /\ UNCHANGED <<azNonInteractive, azIsSet, nmVars, clVars, flowVars, shVars>>

\* if viper.IsSet(k) {...} else if nonInteractiveMode {return errors.New(...)}
\* else {prompt}: fromConfig and fromPrompt are the possible outcomes of
\* reading the configuration and of the prompt
AzObtain(k, fromConfig, fromPrompt) ==
  /\ IF k \in azIsSet
       THEN /\ \E r \in fromConfig : AzTake(k, r)
            /\ UNCHANGED azPrompted
       ELSE IF azNonInteractive
         THEN /\ AzReturn(k \o " must be specified")
              /\ UNCHANGED <<azCfg, azPrompted>>
         ELSE /\ azPrompted' = Append(azPrompted, k)
              /\ \E r \in fromPrompt : AzTake(k, r)
  /\ UNCHANGED <<azNonInteractive, azIsSet, nmVars, clVars, flowVars, shVars>>

\* a step that touches neither cfg nor the prompts: it succeeds or returns e
AzStep(step, ok, e) ==
  /\ IF ok THEN /\ azPc' = AzAfter(step)
                /\ UNCHANGED <<azRet, azState>>
           ELSE AzReturn(e)
  /\ UNCHANGED <<azNonInteractive, azIsSet, azCfg, azPrompted, nmVars,
                 clVars, flowVars, shVars>>

\* viper.GetString(k), taken as it is
FromConfig(k) == {Outcome("nil", v) : v \in ConfigValues(k)}

\* viper.GetString(k), which has to be one of the names in list
FromConfigIn(k, list) ==
  {Outcome(IF v \in list THEN "nil" ELSE "Invalid " \o k, v) :
     v \in ConfigValues(k)}

\* promptui.Prompt / promptui.Select: an error or one of the values
FromPrompt(values) ==
  {Outcome("PromptError", "")} \cup {Outcome("nil", v) : v \in values}

\* getBaseManagerTerraformConfig(azureRancherTerraformModulePath, name)
AzBaseConfig ==
  /\ azPc = "base"
  /\ \E ok \in BOOLEAN : AzStep("base", ok, "BaseConfigError")

AzSubscriptionID ==
  /\ azPc = "azure_subscription_id"
  /\ AzObtain("azure_subscription_id", FromConfig("azure_subscription_id"),
              FromPrompt({"typed"}))

AzClientID ==
  /\ azPc = "azure_client_id"
  /\ AzObtain("azure_client_id", FromConfig("azure_client_id"),
              FromPrompt({"typed"}))

AzClientSecret ==
  /\ azPc = "azure_client_secret"
  /\ AzObtain("azure_client_secret", FromConfig("azure_client_secret"),
              FromPrompt({"typed"}))

AzTenantID ==
  /\ azPc = "azure_tenant_id"
  /\ AzObtain("azure_tenant_id", FromConfig("azure_tenant_id"),
              FromPrompt({"typed"}))

AzEnvironment ==
  /\ azPc = "azure_environment"
  /\ AzObtain("azure_environment", FromConfig("azure_environment"),
              FromPrompt(AzureEnvironments))

\* the check of the environment left out
AzEnvironmentUnverified ==
  /\ azPc = "verify_environment"
  /\ AzStep("verify_environment", TRUE, "")

\* "Verify selected azure environment is valid"
AzVerifyEnvironment ==
  /\ azPc = "verify_environment"
  /\ AzStep("verify_environment",
            azCfg["azure_environment"] \in AzureEnvironments,
            "Invalid azure_environment")

\* azure.EnvironmentFromName, adal.NewOAuthConfig,
\* adal.NewServicePrincipalToken and azureGroupClient.ListLocations
AzListLocations ==
  /\ azPc = "list_locations"
  /\ \E ok \in BOOLEAN : AzStep("list_locations", ok, "SdkError")

AzLocation ==
  /\ azPc = "azure_location"
  /\ AzObtain("azure_location", FromConfigIn("azure_location", AzureLocations),
              FromPrompt(AzureLocations))

\* azureVMSizesClient.List
AzListSizes ==
  /\ azPc = "list_sizes"
  /\ \E ok \in BOOLEAN : AzStep("list_sizes", ok, "SdkError")

AzSize ==
  /\ azPc = "azure_size"
  /\ AzObtain("azure_size", FromConfigIn("azure_size", AzureVMSizes),
              FromPrompt(AzureVMSizes))

AzSSHUser ==
  /\ azPc = "azure_ssh_user"
  /\ AzObtain("azure_ssh_user", FromConfig("azure_ssh_user"),
              FromPrompt({"ubuntu"}))

\* the paths homedir.Expand can make of the paths read
Expanded(paths) == UNION {Expand(path) : path \in paths}

AzPublicKeyPath ==
  /\ azPc = "azure_public_key_path"
  /\ AzObtain("azure_public_key_path",
              Expanded(ConfigValues("azure_public_key_path")),
              {Outcome("PromptError", <<>>)} \cup Expanded(KeyPaths))

AzPrivateKeyPath ==
  /\ azPc = "azure_private_key_path"
  /\ AzObtain("azure_private_key_path",
              Expanded(ConfigValues("azure_private_key_path")),
              {Outcome("PromptError", <<>>)} \cup Expanded(KeyPaths))

\* currentState.SetManager(&cfg); return nil
AzSetManager ==
  /\ azPc = "set_manager"
  /\ azState' = azCfg
  /\ azRet' = "nil"
  /\ azPc' = "returned"
  /\ UNCHANGED <<azNonInteractive, azIsSet, azCfg, azPrompted, nmVars,
                 clVars, flowVars, shVars>>

Init == FlowInit /\ NamerRest /\ ClusterRest /\ ShellRest /\ AzureRest

Next ==
  \E p \in Procs :
    \/ Load(p) /\ UNCHANGED <<nmVars, clVars, shVars, azVars>>
    \/ MutateNamed(p) /\ UNCHANGED <<nmVars, clVars, shVars, azVars>>
    \/ MutateSetP(p) /\ UNCHANGED <<nmVars, clVars, shVars, azVars>>
    \/ MakeTempDir(p) /\ UNCHANGED <<nmVars, clVars, shVars, azVars>>
    \/ WriteConfig(p) /\ UNCHANGED <<nmVars, clVars, shVars, azVars>>
    \/ TerraformInit(p) /\ UNCHANGED <<nmVars, clVars, shVars, azVars>>
    \/ TerraformApply(p) /\ UNCHANGED <<nmVars, clVars, shVars, azVars>>
    \/ PersistState(p) /\ UNCHANGED <<nmVars, clVars, shVars, azVars>>

Spec == Init /\ [][Next]_vars

\* the steps of an invocation that has started: every call it makes
\* returns, so the step after it is eventually taken
Proceed(p) ==
  /\ \/ MutateNamed(p) \/ MutateSetP(p) \/ MakeTempDir(p) \/ WriteConfig(p)
     \/ TerraformInit(p) \/ TerraformApply(p) \/ PersistState(p)
  /\ UNCHANGED <<nmVars, clVars, shVars, azVars>>

\* the fair runs start from a cluster manager that already has a node
FairInit == Init /\ backend = Bytes(DocOf({NameW}, "c1"))

FairSpec ==
  FairInit /\ [][Next]_vars /\ \A p \in Procs : WF_vars(Proceed(p))

SpecNamerInit ==
  NamerInit /\ ClusterRest /\ FlowRest /\ ShellRest /\ AzureRest
SpecNamerNext == NamerCall \/ NamerAdd
SpecNamer == SpecNamerInit /\ [][SpecNamerNext]_vars

SpecClusterInit ==
  ClusterInit /\ NamerRest /\ FlowRest /\ ShellRest /\ AzureRest
SpecClusterNext == AddNodes \/ RemoveNode
SpecCluster == SpecClusterInit /\ [][SpecClusterNext]_vars

SpecShellInit ==
  /\ ShellInit /\ FlowIdle /\ rmMayFail \in BOOLEAN
  /\ NamerRest /\ ClusterRest /\ AzureRest
SpecShellNext == ShTempDir \/ ShWriteFile \/ ShInit \/ ShApply \/ ShDestroy
SpecShell == SpecShellInit /\ [][SpecShellNext]_vars

\* SpecScratch: one of the three functions that work in a temporary
\* directory runs, either one of the two of package shell or newTritonNode
SpecScratchInit ==
  \/ /\ ShellInit /\ FlowIdle /\ rmMayFail \in BOOLEAN
     /\ NamerRest /\ ClusterRest /\ AzureRest
  \/ /\ FlowStart /\ rmMayFail \in BOOLEAN
     /\ NamerRest /\ ClusterRest /\ ShellRest /\ AzureRest
SpecScratchNext ==
  \/ ShTempDir \/ ShWriteFile \/ ShInit \/ ShApply \/ ShDestroy
  \/ \E p \in Procs :
       \/ /\ shPc = "rest" /\ Load(p)
          /\ UNCHANGED <<nmVars, clVars, shVars, azVars>>
       \/ /\ shPc = "rest" /\ MutateNamed(p)
          /\ UNCHANGED <<nmVars, clVars, shVars, azVars>>
       \/ /\ shPc = "rest" /\ MutateSetP(p)
          /\ UNCHANGED <<nmVars, clVars, shVars, azVars>>
       \/ /\ shPc = "rest" /\ MakeTempDir(p)
          /\ UNCHANGED <<nmVars, clVars, shVars, azVars>>
       \/ /\ shPc = "rest" /\ WriteConfig(p)
          /\ UNCHANGED <<nmVars, clVars, shVars, azVars>>
       \/ /\ shPc = "rest" /\ TerraformInit(p)
          /\ UNCHANGED <<nmVars, clVars, shVars, azVars>>
       \/ /\ shPc = "rest" /\ TerraformApply(p)
          /\ UNCHANGED <<nmVars, clVars, shVars, azVars>>
       \/ /\ shPc = "rest" /\ PersistState(p)
          /\ UNCHANGED <<nmVars, clVars, shVars, azVars>>
SpecScratch == SpecScratchInit /\ [][SpecScratchNext]_vars

SpecAzureInit ==
  AzureInit /\ NamerRest /\ ClusterRest /\ FlowRest /\ ShellRest
SpecAzureNext ==
  \/ AzBaseConfig \/ AzSubscriptionID \/ AzClientID \/ AzClientSecret
  \/ AzTenantID \/ AzEnvironment \/ AzVerifyEnvironment \/ AzListLocations
  \/ AzLocation \/ AzListSizes \/ AzSize \/ AzSSHUser \/ AzPublicKeyPath
  \/ AzPrivateKeyPath \/ AzSetManager
SpecAzure == SpecAzureInit /\ [][SpecAzureNext]_vars

(***************************************************************************)
(* Properties of getNewHostnames (checked under SpecNamer).                *)
(***************************************************************************)
NamerReturned == nmPc \in {"names", "added", "failed"}

\* the call took the numbering path (the verbatim case does not apply)
NumberingCase ==
  nmCount >= 2 \/ (nmCount = 1 /\ nmNodeName \in Range(nmExisting))

\* the part of name after base and "-"
SuffixOf(name, base) == SubSeq(name, Len(base) + 2, Len(name))

\* name is exactly base + "-" + <positive integer> in decimal notation
IsPositiveNumbered(name, base) ==
  /\ HasPrefix(name, base \o <<"-">>)
  /\ LET suffix == SuffixOf(name, base)
     IN /\ suffix # <<>>
        /\ \A i \in 1..Len(suffix) : IsDigit(suffix[i])
        /\ suffix[1] # "0"

\* the digits of the positive integer that name carries
NumberOf(name, base) ==
  LET suffix == SuffixOf(name, base)
  IN [i \in 1..Len(suffix) |-> DigitVal(suffix[i])]

\* the largest positive integer N such that base-N is in names, 0 if none
MaxSuffix(names, base) ==
  LET nums == {NumberOf(n, base) :
                 n \in {e \in names : IsPositiveNumbered(e, base)}}
  IN IF nums = {} THEN <<0>>
     ELSE CHOOSE m \in nums : \A o \in nums : ~MagLess(m, o)

RECURSIVE MagAdd(_, _)
MagAdd(m, i) == IF i = 0 THEN m ELSE MagAdd(MagInc(StripZeros(m)), i - 1)

\* base-(maxSuffix+1), ..., base-(maxSuffix+count)
NumberedSeries(names, base, count) ==
  [i \in 1..count |->
     base \o <<"-">> \o Itoa(GoInt(FALSE, MagAdd(MaxSuffix(names, base), i)))]

\* C5: for count >= 1 the returned names are pairwise distinct, none of them
\* is an existing name, and for count = 1 with an unused base name the
\* result is exactly [baseName].
C5_DistinctFreshVerbatim ==
  (NamerReturned /\ nmCount >= 1) =>
     /\ \A i, j \in 1..Len(nmResult) : i # j => nmResult[i] # nmResult[j]
     /\ \A i \in 1..Len(nmResult) : nmResult[i] \notin Range(nmExisting)
     /\ (nmCount = 1 /\ nmNodeName \notin Range(nmExisting))
          => nmResult = <<nmNodeName>>

\* C6: on the numbering path the result is exactly baseName-(maxSuffix+1),
\* ..., baseName-(maxSuffix+count), maxSuffix being the largest positive
\* integer N with baseName-N an existing name, or 0.
C6_NumberedFromMaxSuffix ==
  (NamerReturned /\ NumberingCase) =>
     nmResult = NumberedSeries(Range(nmExisting), nmNodeName, nmCount)

\* C8: when the base name is taken or count >= 2, the bare base name is not
\* returned and every returned name is the base name, "-" and a number.
C8_NumberingNeverBare ==
  (NamerReturned /\ NumberingCase) =>
     /\ Len(nmResult) = nmCount
     /\ \A i \in 1..Len(nmResult) :
          /\ nmResult[i] # nmNodeName
          /\ HasPrefix(nmResult[i], nmNodeName \o <<"-">>)
          /\ Atoi(SuffixOf(nmResult[i], nmNodeName)).ok

\* existing {w}, base w, count 1 yields [w-1]
C8_Witness ==
  /\ NamerReturned
  /\ nmExisting = <<NameW>> /\ nmNodeName = NameW /\ nmCount = 1
  /\ nmResult = <<NameW1>>

\* C9: existing names that are not exactly baseName-<positive integer> have
\* no effect on the starting number: the numbered result is the one computed
\* from the well-formed names alone.
C9_MalformedIgnored ==
  (NamerReturned /\ NumberingCase) =>
     LET wellFormed(e) == IsPositiveNumbered(e, nmNodeName)
         start == StartNum(SelectSeq(nmExisting, wellFormed), nmNodeName)
     IN nmResult = [i \in 1..nmCount |->
                      nmNodeName \o <<"-">> \o Itoa(IntAdd(start, i - 1))]

\* C10: for count < 1 the result is the empty sequence, no Add fails, and
\* the document is left as it was.
C10_NothingForCountBelowOne ==
  (NamerReturned /\ nmCount < 1) =>
     /\ nmResult = <<>>
     /\ nmPc # "failed"
     /\ nmDoc = DocOf(Range(nmExisting), "c1")

C10_Witness ==
  /\ nmPc = "added" /\ nmCount < 0
  /\ nmExisting = <<NameW1, NameW>> /\ nmNodeName = NameW3
  /\ nmDoc = DocOf({NameW, NameW1}, "c1")

(***************************************************************************)
(* Gap reuse (checked under SpecCluster).                                  *)
(***************************************************************************)
\* C7: a numbered name (base-N, N a positive integer) freed by a removed
\* node is not handed out again while a name of the same base with a higher
\* number exists.
C7_NoGapReuse ==
  clLast.op = "add" =>
    \A i \in 1..Len(clLast.result) :
      LET r == clLast.result[i]
      IN (r \in clLast.freed /\ IsPositiveNumbered(r, clLast.base)) =>
           ~\E e \in clLast.before :
               /\ IsPositiveNumbered(e, clLast.base)
               /\ MagLess(NumberOf(r, clLast.base), NumberOf(e, clLast.base))

(***************************************************************************)
(* Properties of the workflow (checked under Spec).                        *)
(***************************************************************************)
Keys(b) == {e[1] : e \in b}

\* C1: when terraform init or terraform apply returned an error, the
\* invocation returns that error without having written the backend, and
\* unless another invocation wrote meanwhile the backend still holds the
\* bytes it held when the invocation loaded them.
C1_FailureIsolation ==
  \A p \in Procs :
    hist[p].tfError # "none" =>
      /\ pc[p] = "discarded"
      /\ err[p] = (IF hist[p].tfError = "init" THEN "InitError"
                                               ELSE "ApplyError")
      /\ hist[p].wrote = 0
      /\ ~hist[p].othersWrote => backend = hist[p].loaded

C1_Witness ==
  \E p \in Procs :
    /\ hist[p].tfError = "apply"
    /\ hist[p].newKeys # {}
    /\ hist[p].handed # hist[p].loaded
    /\ ~hist[p].othersWrote
    /\ backend = hist[p].loaded

\* C2: every module of the document the backend holds was part of a
\* configuration terraform apply had succeeded on, and an invocation writes
\* the backend only after its own apply succeeded, with the configuration
\* that was applied.
C2_DurableTruth ==
  /\ \A e \in backend : \E a \in applied : e \in a
  /\ \A p \in Procs :
       hist[p].wrote > 0 =>
         /\ hist[p].applyOk
         /\ hist[p].tfError = "none"
         /\ hist[p].committed \in applied

C2_Witness ==
  \E p, q \in Procs :
    /\ p # q
    /\ pc[p] = "committed" /\ hist[p].newKeys # {}
    /\ backend = hist[p].committed
    /\ hist[q].tfError = "apply" /\ hist[q].newKeys # {}
    /\ hist[q].handed \notin applied

\* C3: an invocation that committed had init and apply succeed, wrote
\* exactly the bytes it had saved for terraform (the document was not
\* changed in between), and until the next write a load returns that
\* document with every module just added; after a successful apply only a
\* failed backend write keeps the invocation from committing.
C3_SuccessPath ==
  \A p \in Procs :
    /\ pc[p] = "committed" =>
         /\ hist[p].applyOk /\ hist[p].tfError = "none"
         /\ hist[p].wrote = 1
         /\ hist[p].committed = hist[p].handed
         /\ hist[p].committed = Bytes(doc[p])
         /\ hist[p].newKeys \subseteq Keys(hist[p].committed)
         /\ backendVer = hist[p].commitNo =>
              /\ ParseJSON(backend) = doc[p]
              /\ hist[p].newKeys \subseteq DOMAIN ParseJSON(backend)
    /\ (hist[p].applyOk /\ pc[p] = "discarded") => err[p] = "PersistError"

C3_Witness ==
  \E p \in Procs :
    /\ pc[p] = "committed"
    /\ Cardinality(hist[p].newKeys) = 2
    /\ backendVer = hist[p].commitNo
    /\ backend # hist[p].loaded
    /\ hist[p].loaded # {}

\* C4 as claimed: of two invocations that both committed, the document
\* committed second contains the modules the first one added.
C4_NoLostUpdate ==
  \A p, q \in Procs :
    (/\ p # q
     /\ pc[p] = "committed" /\ pc[q] = "committed"
     /\ hist[p].commitNo < hist[q].commitNo)
      => hist[p].newKeys \subseteq Keys(hist[q].committed)

\* C4 amended: when the second invocation loaded the very document the
\* first one had committed (no other write came between that commit and the
\* load), the document it commits holds a module under every key the first
\* one added.
C4_SerializedNoLostUpdate ==
  \A p, q \in Procs :
    (/\ p # q
     /\ pc[p] = "committed" /\ pc[q] = "committed"
     /\ hist[p].commitNo = hist[q].loadNo)
      => hist[p].newKeys \subseteq Keys(hist[q].committed)

C4_Witness ==
  \E p, q \in Procs :
    /\ p # q
    /\ pc[p] = "committed" /\ pc[q] = "committed"
    /\ hist[p].commitNo = hist[q].loadNo
    /\ hist[p].newKeys # {} /\ hist[q].newKeys # {}
    /\ hist[p].newKeys \cap hist[q].newKeys = {}

\* C11: every module key newTritonNode adds was absent from the document
\* the invocation loaded, so no existing module entry (of this or of another
\* cluster) is overwritten.
C11_CollisionFree ==
  \A p \in Procs :
    hist[p].mutated => hist[p].newKeys \cap Keys(hist[p].loaded) = {}

\* C12: when the backend write failed after a successful apply, the
\* invocation returns that error, has made that one attempt and no
\* successful write, and unless another invocation wrote meanwhile the
\* backend holds the bytes it held when the invocation loaded them.
C12_PersistFailureSurfaced ==
  \A p \in Procs :
    hist[p].persistError =>
      /\ hist[p].applyOk
      /\ pc[p] = "discarded"
      /\ err[p] = "PersistError"
      /\ hist[p].persists = 1
      /\ hist[p].wrote = 0
      /\ ~hist[p].othersWrote => backend = hist[p].loaded

C12_Witness ==
  \E p \in Procs :
    /\ hist[p].persistError
    /\ hist[p].newKeys # {}
    /\ hist[p].handed \in applied
    /\ hist[p].handed # hist[p].loaded
    /\ ~hist[p].othersWrote
    /\ backend = hist[p].loaded

\* the phase of the coordinator a position of newTritonNode belongs to
Phase(position) ==
  IF position \in {"tempdir", "written", "inited", "applied"}
    THEN "applying"
    ELSE position

Terminal == {"committed", "discarded"}

\* the chain of the state machine, with Discarded entered from Applying only
ChainSteps ==
  { <<"idle", "loaded">>, <<"loaded", "mutated">>, <<"mutated", "applying">>,
    <<"applying", "committed">>, <<"applying", "discarded">> }

\* the error returns that leave the chain before Applying
EarlyReturns ==
  { <<"idle", "discarded">>, <<"loaded", "discarded">>,
    <<"mutated", "discarded">> }

\* what one step does to invocation p, judged against the steps allowed
PhaseStep(p, allowed) ==
  IF Load(p)
    THEN \* a new invocation of p starts from Idle
         /\ pc[p] \in Terminal \cup {"idle"}
         /\ <<"idle", Phase(pc'[p])>> \in allowed
    ELSE /\ Phase(pc'[p]) # Phase(pc[p]) =>
              <<Phase(pc[p]), Phase(pc'[p])>> \in allowed
         /\ pc[p] \in Terminal => (pc'[p] = pc[p] /\ err'[p] = err[p])
         /\ doc'[p] # doc[p] => pc[p] = "loaded"

OutcomesExclusive ==
  \A p \in Procs :
    /\ pc[p] = "committed" => err[p] = "nil"
    /\ pc[p] = "discarded" => err[p] # "nil"

\* C13 as claimed: every invocation moves only along Idle -> Loaded ->
\* Mutated -> Applying -> {Committed | Discarded} without skipping a phase,
\* the document changes only before the apply step starts, and Committed
\* and Discarded are terminal and exclude each other.
C13_StrictPhaseOrder ==
  /\ [][\A p \in Procs : PhaseStep(p, ChainSteps)]_vars
  /\ []OutcomesExclusive

\* C13 amended: as above, except that an error return leaves the chain for
\* Discarded from Idle, Loaded and Mutated as well, without passing through
\* the later phases.
C13_PhaseOrder ==
  /\ [][\A p \in Procs : PhaseStep(p, ChainSteps \cup EarlyReturns)]_vars
  /\ []OutcomesExclusive

C13_Witness ==
  \E p, q \in Procs :
    /\ pc[p] = "committed" /\ hist[p].newKeys # {}
    /\ pc[q] = "discarded" /\ err[q] = "AddError" /\ hist[q].newKeys # {}
    /\ hist[q].inits = 0

\* C15: within one invocation terraform init, terraform apply and the
\* backend write each run at most once and in that order, and after a step
\* has failed the invocation has returned without running a later step.
C15_NoRetry ==
  \A p \in Procs :
    /\ hist[p].inits <= 1 /\ hist[p].applies <= 1 /\ hist[p].persists <= 1
    /\ hist[p].applies <= hist[p].inits
    /\ hist[p].persists <= hist[p].applies
    /\ hist[p].tfError = "init" =>
         /\ pc[p] = "discarded"
         /\ hist[p].inits = 1 /\ hist[p].applies = 0 /\ hist[p].persists = 0
    /\ hist[p].tfError = "apply" =>
         /\ pc[p] = "discarded"
         /\ hist[p].inits = 1 /\ hist[p].applies = 1 /\ hist[p].persists = 0
    /\ hist[p].persistError =>
         /\ pc[p] = "discarded"
         /\ hist[p].inits = 1 /\ hist[p].applies = 1 /\ hist[p].persists = 1
    /\ (pc[p] = "discarded" /\ err[p] \in {"LoadError", "NodesError",
                                           "AddError", "TempDirError",
                                           "WriteError"}) =>
         hist[p].inits = 0 /\ hist[p].applies = 0 /\ hist[p].persists = 0

C15_Witness ==
  \E p, q \in Procs :
    /\ pc[p] = "discarded" /\ hist[p].tfError = "apply"
    /\ hist[p].inits = 1 /\ hist[p].applies = 1 /\ hist[p].persists = 0
    /\ pc[q] = "discarded" /\ hist[q].tfError = "init"
    /\ hist[q].inits = 1 /\ hist[q].applies = 0

\* C16: after the Adds of an invocation every added key holds the record
\* that was added, in exactly one entry of the serialized document, whether
\* or not the key was there before, and every other entry of the loaded
\* document is unchanged.
C16_Upsert ==
  \A p \in Procs :
    hist[p].mutated =>
      LET before == ParseJSON(hist[p].loaded)
      IN /\ DOMAIN doc[p] = (DOMAIN before) \cup hist[p].newKeys
         /\ \A k \in hist[p].newKeys :
              /\ doc[p][k] = NodeCfg(cluster[p], hostname[p])
              /\ Cardinality({e \in Bytes(doc[p]) : e[1] = k}) = 1
         /\ \A k \in (DOMAIN before) \ hist[p].newKeys :
              doc[p][k] = before[k]

\* a key added by one invocation is added again, with another record, by
\* the next one, next to an entry that is not touched
C16_Witness ==
  \E p, q \in Procs :
    /\ p # q
    /\ pc[q] = "committed" /\ hist[p].loadNo = hist[q].commitNo
    /\ hist[p].mutated
    /\ \E k \in hist[p].newKeys \cap hist[q].newKeys :
         ParseJSON(hist[p].loaded)[k] # doc[p][k]
    /\ Keys(hist[p].loaded) \ hist[p].newKeys # {}

\* C19: whatever is handed to terraform holds one module per name that
\* getNewHostnames returned, and an invocation in which an Add returned an
\* error has returned that error without running terraform init or apply
\* and without writing the backend.
C19_BatchAsWhole ==
  \A p \in Procs :
    /\ (pc[p] \in {"written", "inited", "applied", "committed"}
          \/ hist[p].inits > 0) =>
         /\ hist[p].newKeys =
              {NodeKey(hist[p].names[i]) : i \in 1..Len(hist[p].names)}
         /\ hist[p].newKeys \subseteq Keys(hist[p].handed)
    /\ (hist[p].mutated /\ Cardinality(hist[p].newKeys) < Len(hist[p].names)) =>
         /\ pc[p] = "discarded" /\ err[p] = "AddError"
         /\ hist[p].inits = 0 /\ hist[p].applies = 0 /\ hist[p].persists = 0
         /\ hist[p].wrote = 0 /\ hist[p].handed = {}
         /\ ~hist[p].othersWrote => backend = hist[p].loaded

C19_Witness ==
  \E p \in Procs :
    /\ err[p] = "AddError" /\ pc[p] = "discarded"
    /\ Len(hist[p].names) = 2
    /\ Cardinality(hist[p].newKeys) = 1
    /\ backend = hist[p].loaded

Running == {"loaded", "mutated", "tempdir", "written", "inited", "applied"}

\* C20: every invocation that has started ends in Committed (nil returned,
\* one backend write) or in Discarded (error returned, no backend write),
\* never in both and never in neither, when every call it makes returns.
C20_Terminates ==
  /\ \A p \in Procs : (pc[p] \in Running) ~> (pc[p] \in Terminal)
  /\ [](\A p \in Procs :
          /\ pc[p] = "committed" => (err[p] = "nil" /\ hist[p].wrote = 1)
          /\ pc[p] = "discarded" => (err[p] # "nil" /\ hist[p].wrote = 0))

C20_Witness ==
  \E p, q \in Procs :
    /\ pc[p] = "committed" /\ hist[p].applyOk
    /\ pc[q] = "discarded" /\ hist[q].applyOk /\ hist[q].persistError

(***************************************************************************)
(* The terraform runs of package shell (checked under SpecShell).          *)
(***************************************************************************)
\* C14: terraform runs in the fresh temporary directory, which then holds
\* the serialized document as main.tf.json and nothing else: first init,
\* then, only after init succeeded, apply (for the destroy function destroy
\* -force with its args); nothing runs after a failed write; the function
\* returns nil exactly when the last command ran and succeeded, and
\* otherwise the error of the step that failed.
C14_ToolProtocol ==
  LET config == {<<MainTfJson, Bytes(shState)>>}
      last == IF shOp = "apply" THEN <<"apply", "-auto-approve">>
                                ELSE <<"destroy", "-force">> \o shArgs
      n == Len(shRan)
  IN /\ n <= 2
     /\ \A i \in 1..n : shRan[i].dir = shTempDir /\ shRan[i].files = config
     /\ n >= 1 => shRan[1].args = <<"init", "-force-copy">>
     /\ n = 2 => shRan[1].ok /\ shRan[2].args = last
     /\ shPc = "inited" => n = 1 /\ shRan[1].ok
     /\ shPc \in {"call", "tempdir", "written"} => n = 0
     /\ shPc = "returned" =>
          /\ shRet = "nil" <=> (n = 2 /\ shRan[2].ok)
          /\ shRet \in {"TempDirError", "WriteError"} <=> n = 0
          /\ shRet = "InitError" <=> (n = 1 /\ ~shRan[1].ok)
          /\ shRet = (IF shOp = "apply" THEN "ApplyError" ELSE "DestroyError")
               <=> (n = 2 /\ ~shRan[2].ok)

\* a destroy with args that succeeded while another directory existed
C14_Witness ==
  /\ shPc = "returned" /\ shRet = "nil" /\ shOp = "destroy"
  /\ shArgs # <<>> /\ Len(shRan) = 2
  /\ shState # EmptyDoc
  /\ DOMAIN shFs # {}

(***************************************************************************)
(* Properties of newAzureManager (checked under SpecAzure).                *)
(***************************************************************************)
PathSettings == {"azure_public_key_path", "azure_private_key_path"}

\* C17: the manager module of the state document is written only by the
\* SetManager call that ends a successful run, with all ten settings
\* obtained and the environment, location and size valid; until then, and
\* after every error return, the state document is as it was.
C17_SetManagerLast ==
  /\ (azPc # "returned" \/ azRet # "nil") => azState = NoManager
  /\ (azPc = "returned" /\ azRet = "nil") =>
       /\ azState = azCfg
       /\ DOMAIN azCfg = Range(AzureSettings)
       /\ azCfg["azure_environment"] \in AzureEnvironments
       /\ azCfg["azure_location"] \in AzureLocations
       /\ azCfg["azure_size"] \in AzureVMSizes
       /\ \A k \in PathSettings : Head(azCfg[k]) # "~"

C17_Witness ==
  /\ azPc = "returned" /\ azRet = "nil"
  /\ azState = azCfg /\ azState # NoManager
  /\ "azure_location" \in azIsSet
  /\ Len(azPrompted) >= 2

\* index of the first required setting that is not set, 0 if all are set
FirstUnset ==
  LET unset == {i \in 1..Len(AzureSettings) : AzureSettings[i] \notin azIsSet}
  IN IF unset = {} THEN 0 ELSE CHOOSE i \in unset : \A j \in unset : i <= j

Missing(k) == k \o " must be specified"

\* v is what reading setting k from the configuration yields
TakenFromConfig(k, v) ==
  IF k \in PathSettings
    THEN Outcome("nil", v) \in Expanded(ConfigValues(k))
    ELSE v \in ConfigValues(k)

\* in non-interactive mode nothing is prompted for and every value
\* assigned is the one the configuration holds
NeverPrompts ==
  azNonInteractive =>
    /\ azPrompted = <<>>
    /\ \A k \in DOMAIN azCfg : k \in azIsSet /\ TakenFromConfig(k, azCfg[k])

\* C18 as claimed: in non-interactive mode nothing is prompted for, set
\* values are taken from the configuration, and when a required setting is
\* not set the function returns "<key> must be specified" for the first
\* such setting in the order of the checks.
C18_FirstUnsetReported ==
  /\ NeverPrompts
  /\ (azNonInteractive /\ azPc = "returned" /\ FirstUnset # 0) =>
       azRet = Missing(AzureSettings[FirstUnset])

\* the errors of the steps between the checks of the settings
StepErrors ==
  { "BaseConfigError", "Invalid azure_environment", "SdkError",
    "Invalid azure_location", "Invalid azure_size", "ExpandError" }

\* C18 amended: in non-interactive mode nothing is prompted for, set values
\* are taken from the configuration, and when a required setting is not set
\* the function returns an error: "<key> must be specified" for the first
\* such setting once every setting before it was taken, unless a step
\* before that check (base configuration, check of the environment, SDK
\* call, check of location or size, path expansion) has returned its error.
C18_FirstUnsetReportedWhenReached ==
  /\ NeverPrompts
  /\ (azNonInteractive /\ azPc = "returned" /\ FirstUnset # 0) =>
       LET earlier == {AzureSettings[j] : j \in 1..(FirstUnset - 1)}
       IN /\ azRet \in {Missing(AzureSettings[FirstUnset])} \cup StepErrors
          /\ DOMAIN azCfg \subseteq earlier
          /\ azRet = Missing(AzureSettings[FirstUnset]) =>
               DOMAIN azCfg = earlier
  /\ (azNonInteractive /\ azPc = "returned" /\ FirstUnset = 0) =>
       azRet \in {"nil"} \cup StepErrors

C18_Witness ==
  /\ azNonInteractive /\ azPc = "returned"
  /\ FirstUnset # 0 /\ AzureSettings[FirstUnset] = "azure_size"
  /\ azRet = "azure_size must be specified"
  /\ azPrompted = <<>>
  /\ Cardinality(DOMAIN azCfg) = 6

(***************************************************************************)
(* The temporary directories (checked under SpecScratch).                  *)
(***************************************************************************)
\* C21: while a function of package shell works, its temporary directory
\* exists; once it has returned, on whichever path, that directory is gone,
\* no directory holds the serialized document, and the directories of
\* others are as they were.  While an invocation of newTritonNode works
\* after ioutil.TempDir, its temporary directory exists and holds the
\* document handed to terraform; no temporary directory of an invocation
\* that has returned, nil or an error, is left behind.
C21_ScratchRemoved ==
  /\ shPc \in {"tempdir", "written", "inited"} => shTempDir \in DOMAIN shFs
  /\ shPc = "returned" =>
       /\ shTempDir \notin DOMAIN shFs
       /\ \A d \in DOMAIN shFs :
            /\ shFs[d] = OldFiles
            /\ <<MainTfJson, Bytes(shState)>> \notin shFs[d]
       /\ shRan # <<>> => shRan[1].dir = shTempDir
  /\ \A p \in Procs :
       /\ pc[p] \in {"tempdir", "written", "inited", "applied"} =>
            scratch[p].dir
       /\ pc[p] \in {"written", "inited", "applied"} =>
            scratch[p].file /\ scratch[p].json = hist[p].handed
       /\ pc[p] \in {"idle", "committed", "discarded"} =>
            scratch[p] = NoScratch
  /\ leftDirs = {}
====
